---- MODULE Spec2Model ----
(***************************************************************************)
(* Pixeldrain-Rust: the resilient transfer client (src/pixeldrain_api.rs)  *)
(* and the transfer coordinator (src/main.rs).  One user-initiated         *)
(* operation is followed from the UI action that starts it, through the    *)
(* API call with its retry loop and progress reporting, to the recording   *)
(* of its outcome in the shared state.                                     *)
(***************************************************************************)
EXTENDS Integers, Sequences, FiniteSets, TLC

(***************************************************************************)
(* Bounds of the model.                                                    *)
(***************************************************************************)
\* reads of the request/response body followed within one attempt
MaxReads == 2
\* small file sizes / content lengths are 0..MaxSize
MaxSize == 3
\* small read sizes are 1..MaxChunk
MaxChunk == 2
\* files of one multi-file upload are 1..MaxFiles
MaxFiles == 2
\* spawned threads alive at the same time
MaxTasks == 3

\* longest file id of a URL handed to extract_file_id
MaxIdLen == 3

(***************************************************************************)
(* Operations of the coordinator.                                          *)
(***************************************************************************)
\* start_upload with and without a custom name, start_multiple_upload
UploadOps == {"upload", "upload_put", "multi"}

TransferOps == {"upload", "upload_put", "multi", "directory", "download"}

ListTabOps == {"refresh_lists", "create_list", "update_list", "delete_list"}

MetaOps == {"refresh_file_list", "delete_file", "fetch_user_info"} \cup ListTabOps

Ops == TransferOps \cup MetaOps

(***************************************************************************)
(* PixelDrainError values.  kind is the enum variant; sub is what the      *)
(* reqwest error answers to is_timeout/is_connect/is_request/its text;     *)
(* status is the HTTP status of an Api error.                              *)
(***************************************************************************)
Err(k, s, st) == [kind |-> k, sub |-> s, status |-> st]

NoError == Err("None", "", 0)

OkResult == Err("Ok", "", 0)

Reqwest(s) == Err("Reqwest", s, 0)

Api(st) == Err("Api", "", st)

Io == Err("Io", "", 0)

Serde == Err("Serde", "", 0)

MissingApiKey == Err("MissingApiKey", "", 0)

FileNotFound == Err("FileNotFound", "", 0)

InvalidUrl == Err("InvalidUrl", "", 0)

\* what RequestBuilder::send can fail with
SendErrors == {"timeout", "connect", "request", "body", "builder", "redirect"}

\* statuses the server answers with: success, neither success nor >= 400,
\* client error, server error
Statuses == {200, 304, 404, 503}

is_success(st) == st >= 200 /\ st <= 299

is_server_error(st) == st >= 500 /\ st <= 599

\* mutation: client errors are retried as well
should_retry_4xx(e) ==
    CASE e.kind = "Reqwest" -> e.sub \in {"timeout", "connect", "request", "body"}
      [] e.kind = "Api" -> e.status >= 400
      [] OTHER -> FALSE

\* the classifier every retry loop repeats
should_retry(e) ==
    CASE e.kind = "Reqwest" -> e.sub \in {"timeout", "connect", "request", "body"}
      [] e.kind = "Api" -> is_server_error(e.status)
      [] OTHER -> FALSE

\* mutation: one more attempt than the budget
MAX_RETRIES_plus1(o) == IF o = "download" THEN 5 + 1 ELSE 3 + 1

\* const MAX_RETRIES of each retry loop
MAX_RETRIES(o) == IF o = "download" THEN 5 ELSE 3

(***************************************************************************)
(* Progress fractions (f32 in the source) as exact fractions n/d.          *)
(***************************************************************************)
Frac(n, d) == [n |-> n, d |-> d]

Zero == Frac(0, 1)

One == Frac(1, 1)

FLeq(a, b) == IF a.d = b.d THEN a.n <= b.n ELSE a.n * b.d <= b.n * a.d

FEq(a, b) == FLeq(a, b) /\ FLeq(b, a)

\* file sizes and Content-Length values
Sizes == (0..MaxSize) \cup {1000}

\* bytes one read call returns (at most the 8192-byte buffer of download_file)
Chunks == (1..MaxChunk) \cup {500}

\* bytes one read of the archiver's pipe returns
StreamChunks == {1, 524288, 1048576}

\* mutation: the counter is assigned, not accumulated
advance_assign(count, n) == n

\* self.read += bytes_read / downloaded += n
advance(count, n) == count + n

\* mutation: the reader's counter survives the attempt
new_counter_keep(count) == count

\* ProgressReader::new_file / let mut downloaded = 0u64: the counter of a new attempt
new_counter(count) == 0

\* mutation: the fraction still to go is reported
known_progress_remaining(count, tot) ==
    IF count >= tot THEN Zero ELSE Frac(tot - count, tot)

\* known-length mode: (read / total).min(1.0)
known_progress(count, tot) == IF count >= tot THEN One ELSE Frac(count, tot)

\* mutation: the estimate is capped at 1.0
stream_progress_cap1(count) ==
    IF count >= 1048576 THEN One ELSE Frac(count, 1048576)

\* unknown-length mode: (read / 1024 / 1024).min(0.95)
stream_progress(count) ==
    IF count * 100 >= 95 * 1048576 THEN Frac(95, 100) ELSE Frac(count, 1048576)

\* download_file: downloaded / content_length when content_length > 0, else 0.0
download_progress_value(count, tot) ==
    IF tot > 0 THEN known_progress(count, tot) ELSE Zero

\* start_multiple_upload: (file_index + p) / total
multi_progress(idx, p, n) ==
    LET num == idx * p.d + p.n
        den == n * p.d
    IN CASE num = 0 -> Zero
         [] num = den -> One
         [] OTHER -> Frac(num, den)

\* mutation: progress is reset on the first attempt only
attempt_start_first_only(a) == IF a = 1 THEN <<Zero>> ELSE <<>>

\* progress(0.0) at the start of each attempt
attempt_start(a) == <<Zero>>

\* an unused entry of tasks
NoTask == [kind |-> "none", phase |-> "ended", ok |-> FALSE, file |-> "-"]

\* values of AppState.api_key: empty, or a key
StoredKeys == {"", "S"}

\* values of env::var("PIXELDRAIN_API_KEY"): not set, set but empty, a key
EnvKeys == {"unset", "", "E"}

\* Option<String>::None of get_api_key
NoKey == "none"

\* get_api_key: the stored key if not empty, else the environment's if set
\* and not empty, else None
get_api_key(stored, env) ==
    CASE stored # "" -> stored
      [] env \notin {"unset", ""} -> env
      [] OTHER -> NoKey

\* ids the server gives to uploaded files
ServerIds == {"x", "y"}

\* a response: its status, and whether its body can be read and parsed
Response(st, b) == [status |-> st, body |-> b]

\* no response: the request was not sent, or send() failed
NoResp == Response(0, "-")

\* bodies: the JSON expected (named by the id it carries), something else,
\* or a body whose read fails
Bodies == ServerIds \cup {"bad", "unreadable"}

\* no write of a callback yet
NoWrite == [by |-> "none", limited |-> FALSE, redraw |-> FALSE]

\* a write by the callback of operation o
Write(o, l, r) == [by |-> o, limited |-> l, redraw |-> r]

\* const BASE_URL
BASE_URL == "https://pixeldrain.com"

\* mutation: the URL of the API endpoint
get_file_url_api(id) == <<BASE_URL, "/api/file/", id>>

\* UploadResponse::get_file_url: format!("{}/u/{}", BASE_URL, self.id)
get_file_url(id) == <<BASE_URL, "/u/", id>>

\* upload_history is empty
NoEntry == [id |-> "-", url |-> <<>>, size |-> 0]

(***************************************************************************)
(* URLs as texts. A text is the sequence of the characters that follow the *)
(* origin https://pixeldrain.com; "u", "l", "api", "file", "download" and  *)
(* "%20" stand for the letters they spell.                                 *)
(***************************************************************************)
\* characters an id is made of here: two letters, and the characters the
\* URL parser gives a meaning to
IdChars == {"a", "b", ".", "/", "?", "#", " "}

\* the non-empty ids
Ids == UNION {[1..n -> IdChars] : n \in 1..MaxIdLen}

\* the characters of the literal pieces of a URL
Text(piece) ==
    CASE piece = "/u/" -> <<"/", "u", "/">>
      [] piece = "/api/file/" -> <<"/", "api", "/", "file", "/">>
      [] piece = "?download" -> <<"?", "download">>
      [] OTHER -> <<>>

\* Url::parse strips trailing spaces from its input
RECURSIVE TrimEnd(_)
TrimEnd(t) ==
    IF t = <<>> \/ t[Len(t)] # " " THEN t
    ELSE TrimEnd(SubSeq(t, 1, Len(t) - 1))

\* the characters before the first of the given ones: the path ends at the
\* first "?" or "#", a segment at the next "/"
RECURSIVE Before(_, _)
Before(t, stops) ==
    IF t = <<>> \/ Head(t) \in stops THEN <<>>
    ELSE <<Head(t)>> \o Before(Tail(t), stops)

\* the segments of a path that starts with "/"
RECURSIVE Segments(_)
Segments(t) ==
    IF t = <<>> THEN <<>>
    ELSE LET body == Tail(t)
             seg == Before(body, {"/"})
         IN <<seg>> \o Segments(SubSeq(body, Len(seg) + 1, Len(body)))

\* the path state of the URL parser: "." is skipped, ".." removes the
\* segment before it, and either one at the end leaves an empty segment; a
\* space in any other segment is percent-encoded
RECURSIVE Dots(_, _)
Dots(segs, acc) ==
    IF segs = <<>> THEN acc
    ELSE LET g == Head(segs)
             last == Len(segs) = 1
             shorter == IF acc = <<>> THEN acc
                        ELSE SubSeq(acc, 1, Len(acc) - 1)
             encoded == [i \in 1..Len(g) |->
                            IF g[i] = " " THEN "%20" ELSE g[i]]
         IN CASE g = <<".">> ->
                   Dots(Tail(segs), IF last THEN Append(acc, <<>>) ELSE acc)
              [] g = <<".", ".">> ->
                   Dots(Tail(segs),
                        IF last THEN Append(shorter, <<>>) ELSE shorter)
              [] OTHER -> Dots(Tail(segs), Append(acc, encoded))

\* the serialised path
RECURSIVE Join(_)
Join(segs) ==
    IF segs = <<>> THEN <<>>
    ELSE <<"/">> \o Head(segs) \o Join(Tail(segs))

\* a path that keeps the query string
url_path_with_query(t) == Join(Dots(Segments(TrimEnd(t)), <<>>))

\* Url::parse(url)?.path()
url_path(t) == Join(Dots(Segments(Before(TrimEnd(t), {"?", "#"})), <<>>))

\* str::starts_with
StartsWith(t, p) == Len(t) >= Len(p) /\ SubSeq(t, 1, Len(p)) = p

\* Result<String, PixelDrainError> of extract_file_id
UrlResult(r, id) == [r |-> r, id |-> id]

\* PixelDrainClient::extract_file_id
extract_file_id(t) ==
    LET path == url_path(t)
        u == Text("/u/")
        f == Text("/api/file/")
        strip_prefix(p) == SubSeq(path, Len(p) + 1, Len(path))
    IN CASE StartsWith(path, u) /\ strip_prefix(u) # <<>> ->
              UrlResult(OkResult, strip_prefix(u))
         [] ~StartsWith(path, u) /\ StartsWith(path, f)
              /\ strip_prefix(f) # <<>> ->
              UrlResult(OkResult, strip_prefix(f))
         [] OTHER -> UrlResult(InvalidUrl, <<>>)

\* no URL has been handed to extract_file_id
NoCase == [id |-> <<>>, form |-> "none", text |-> <<>>,
           out |-> UrlResult(NoError, <<>>)]

\* holders of the AppState mutex: nobody, the UI thread, or the index of a
\* spawned thread in tasks
(***************************************************************************)
(* The application's mutexes and the threads that take them.               *)
(***************************************************************************)
\* Arc<Mutex<..>> fields of PixelDrainApp, and the Mutex around the
\* progress callback handed to the client
Locks == {"state", "upload_thread_running", "files_loading",
          "upload_progress", "progress_cb"}

\* the UI thread, the task of start_upload, the task of refresh_file_list
LockThreads == {"ui", "upload_task", "files_task"}

\* no thread holds the mutex
Free == "free"

\* the thread is not waiting for a mutex
NoLock == "none"

\* lock().unwrap() and the drop of the guard
Lock(l) == <<"lock", l>>

Unlock(l) == <<"unlock", l>>

\* a statement `*m.lock().unwrap()`: the guard is a temporary
Temp(l) == <<Lock(l), Unlock(l)>>

NoHolder == 0

UiThread == -1

VARIABLES
    op,                      \* operation the task runs
    pc,                      \* position of the task
    attempt,                 \* loop variable of the retry loop
    api_key,                 \* get_api_key() was Some at the start
    path_exists,             \* the local path exists
    total,                   \* file_size / content_length
    read,                    \* ProgressReader.read / downloaded
    nreads,                  \* read calls of this attempt
    wire,                    \* bytes that really went through in this attempt
    cbSeq,                   \* values delivered to the callback in this attempt
    last_update,             \* the throttle's AtomicU64: 0 until the first write
    lastErr,                 \* last_error of the retry loop
    result,                  \* value the API call returned
    succeeded,               \* an attempt got a success response, completely
    read_failed_at,          \* attempt whose response body read failed
    upload_progress,
    download_progress,
    upload_thread_running,
    download_thread_running,
    loading,                 \* the *_loading flags
    last_error,              \* AppState.last_error
    list_error,              \* PixelDrainApp.list_error
    upload_history,          \* entries of AppState.upload_history
    download_history,
    user_info,               \* AppState.user_info is Some
    file_list,               \* AppState.file_list was fetched
    tar_running,             \* the archiver was spawned and not yet waited on
    refresh_pending,         \* the refresh thread delete_file spawned
    server_lists,            \* POST /list requests the server accepted
    tar_blocked,             \* the archiver waits for room in its stderr pipe
    file_index,              \* index of the file a multi-file upload is at
    total_files,             \* paths.len()
    uploaded_count,          \* uploaded_count of start_multiple_upload
    ui_blocked,              \* the UI thread is inside a list operation
    tasks,                   \* the spawned threads that have not ended
    state_lock,              \* holder of the AppState mutex
    ui_at,                   \* where the UI thread is
    stored_key,              \* AppState.api_key
    env_key,                 \* the environment's PIXELDRAIN_API_KEY
    built_key,               \* the key of the client a thread last built
    overlap_failure,         \* the operation that failed while one of another
                             \* category was in flight, until a later start,
                             \* save or failure writes last_error again
    url_case,                \* an id, the URL text built from it, and what
                             \* extract_file_id returned for that text
    held,                    \* who holds each of the application's mutexes
    want,                    \* the mutex each thread is waiting for, if any
    at,                      \* each thread's position in its locking script
    requests,                \* requests the call has sent
    resets,                  \* progress(0.0) calls at the start of an attempt
    resp,                    \* the response the last request got
    last_write,              \* how the callback last wrote a progress cell
    tar_result,              \* what tar_process.wait() returned
    last_entry               \* the entry a single or directory upload pushed

taskVars == <<op, pc, attempt, api_key, path_exists>>

ioVars == <<total, read, nreads, wire, cbSeq, last_update>>

outVars == <<lastErr, result, succeeded, read_failed_at>>

cellVars == <<upload_progress, download_progress>>

flagVars == <<upload_thread_running, download_thread_running, loading>>

stateVars == <<last_error, list_error, upload_history, download_history,
               user_info, file_list>>

multiVars == <<file_index, total_files, uploaded_count>>

lockVars == <<held, want, at>>

coordVars == <<tasks, state_lock, ui_at, stored_key, env_key, built_key,
               overlap_failure, url_case, lockVars>>

traceVars == <<requests, resets, resp, last_write, tar_result, last_entry>>

envVars == <<tar_running, refresh_pending, server_lists, tar_blocked,
             multiVars, ui_blocked, coordVars>>

vars == <<taskVars, ioVars, outVars, cellVars, flagVars, stateVars, envVars,
          traceVars>>

(***************************************************************************)
(* The progress callbacks the coordinator builds.                          *)
(***************************************************************************)
\* start_upload: now - last >= 16 || p >= 1.0
throttle_pass(elapsed, p) == elapsed \/ FLeq(One, p)

\* deliver the values ps (at most one per step after the start) to the callback
Deliver(base, ps, elapsed) ==
    /\ cbSeq' = base \o ps
    /\ IF ps = <<>>
       THEN UNCHANGED <<cellVars, last_update, last_write>>
       ELSE LET p == ps[Len(ps)] IN
            CASE op \in UploadOps ->
                   IF throttle_pass(elapsed \/ last_update = 0, p)
                   THEN /\ upload_progress' =
                             IF op = "multi"
                             THEN multi_progress(file_index, p, total_files)
                             ELSE p
                        /\ last_update' = 1
                        /\ last_write' = Write("upload", TRUE, TRUE)
                        /\ UNCHANGED download_progress
                   ELSE UNCHANGED <<cellVars, last_update, last_write>>
              [] op = "directory" ->
                   /\ upload_progress' = p
                   /\ last_write' = Write(op, FALSE, FALSE)
                   /\ UNCHANGED <<download_progress, last_update>>
              [] op = "download" ->
                   /\ download_progress' = p
                   /\ last_write' = Write(op, FALSE, FALSE)
                   /\ UNCHANGED <<upload_progress, last_update>>
              [] OTHER -> UNCHANGED <<cellVars, last_update, last_write>>

InitBase ==
    /\ op = "none"
    /\ pc = "idle"
    /\ attempt = 0
    /\ api_key = FALSE
    /\ path_exists = FALSE
    /\ total = 0
    /\ read = 0
    /\ nreads = 0
    /\ wire = 0
    /\ cbSeq = <<>>
    /\ last_update = 0
    /\ lastErr = NoError
    /\ result = NoError
    /\ succeeded = FALSE
    /\ read_failed_at = 0
    /\ upload_progress = Zero
    /\ download_progress = Zero
    /\ upload_thread_running = FALSE
    /\ download_thread_running = FALSE
    /\ loading = [o \in MetaOps |-> FALSE]
    /\ last_error \in {"None", "stale"}
    /\ list_error \in {"None", "stale"}
    /\ upload_history = 0
    /\ download_history = 0
    /\ user_info = FALSE
    /\ tar_running = FALSE
    /\ refresh_pending = FALSE
    /\ server_lists = 0
    /\ tar_blocked = FALSE
    /\ file_index = 0
    /\ total_files = 0
    /\ uploaded_count = 0
    /\ ui_blocked = FALSE
    /\ tasks = [t \in 1..MaxTasks |-> NoTask]
    /\ state_lock = NoHolder
    /\ ui_at = "frame"
    /\ stored_key \in StoredKeys
    /\ built_key = "-"
    /\ overlap_failure = "None"
    /\ url_case = NoCase
    /\ held = [l \in Locks |-> Free]
    /\ want = [t \in LockThreads |-> NoLock]
    /\ at = [t \in LockThreads |-> 1]
    /\ requests = 0
    /\ resets = 0
    /\ resp = NoResp
    /\ last_write = NoWrite
    /\ tar_result = "none"
    /\ last_entry = NoEntry

\* AppState::default(): no file list yet; the environment variable is not set
Init == InitBase /\ file_list = FALSE /\ env_key = "unset"


(***************************************************************************)
(* UI thread: the start_* methods.                                         *)
(***************************************************************************)
\* one operation is followed from its start to its end
CanStart == pc = "idle"

\* what every start resets: the new task's locals
Fresh(o, key, a) ==
    /\ op' = o
    /\ attempt' = a
    /\ api_key' = key
    /\ read' = 0
    /\ nreads' = 0
    /\ wire' = 0
    /\ cbSeq' = <<>>
    /\ last_update' = 0
    /\ lastErr' = NoError
    /\ result' = NoError
    /\ succeeded' = FALSE
    /\ read_failed_at' = 0
    /\ requests' = 0
    /\ resets' = 0
    /\ resp' = NoResp
    /\ last_write' = NoWrite
    /\ tar_result' = "none"
    /\ UNCHANGED last_entry

\* the client of the operation is built with a key
HasKey == get_api_key(stored_key, env_key) # NoKey

\* start_upload, with or without a custom file name
StartUpload ==
    /\ CanStart
    /\ ~upload_thread_running
    /\ ~ui_blocked
    /\ \E o \in {"upload", "upload_put"}, size \in Sizes \cup {-1} :
         /\ Fresh(o, HasKey, 0)
         /\ path_exists' = (size >= 0)
         /\ total' = IF size >= 0 THEN size ELSE 0
    /\ upload_progress' = Zero
    /\ upload_thread_running' = TRUE
    /\ pc' = "client_new"
    /\ UNCHANGED <<download_progress, download_thread_running, loading,
                   stateVars, envVars>>

\* start_multiple_upload: the files are uploaded one after the other
StartMultipleUpload ==
    /\ CanStart
    /\ ~ui_blocked
    /\ ~upload_thread_running
    /\ \E n \in 1..MaxFiles, size \in Sizes \cup {-1} :
         /\ Fresh("multi", HasKey, 0)
         /\ total_files' = n
         /\ path_exists' = (size >= 0)
         /\ total' = IF size >= 0 THEN size ELSE 0
    /\ file_index' = 0
    /\ uploaded_count' = 0
    /\ upload_progress' = Zero
    /\ upload_thread_running' = TRUE
    /\ pc' = "client_new"
    /\ UNCHANGED <<download_progress, download_thread_running, loading,
                   stateVars, tar_running, refresh_pending, server_lists,
                   tar_blocked, ui_blocked, coordVars>>

\* start_directory_upload
StartDirectoryUpload ==
    /\ CanStart
    /\ ~ui_blocked
    /\ ~upload_thread_running
    /\ Fresh("directory", HasKey, 0)
    /\ path_exists' = TRUE
    /\ total' = 0
    /\ upload_progress' = Zero
    /\ upload_thread_running' = TRUE
    /\ pc' = "client_new"
    /\ UNCHANGED <<download_progress, download_thread_running, loading,
                   stateVars, envVars>>

\* start_download: the client is built from the default config, without key
StartDownload ==
    /\ CanStart
    /\ ~ui_blocked
    /\ ~download_thread_running
    /\ Fresh("download", FALSE, 0)
    /\ path_exists' = FALSE
    /\ total' = 0
    /\ download_progress' = Zero
    /\ download_thread_running' = TRUE
    /\ pc' = "extract_id"
    /\ UNCHANGED <<upload_progress, upload_thread_running, loading,
                   stateVars, envVars>>

\* refresh_file_list and delete_file
StartFileOp ==
    /\ CanStart
    /\ ~ui_blocked
    /\ \E o \in {"refresh_file_list", "delete_file"} :
         /\ Fresh(o, HasKey, 0)
         /\ loading' = [loading EXCEPT ![o] = TRUE]
    /\ path_exists' = FALSE
    /\ total' = 0
    /\ last_error' = "None"
    /\ pc' = "client_new"
    /\ UNCHANGED <<cellVars, upload_thread_running, download_thread_running,
                   list_error, upload_history, download_history, user_info,
                   file_list, envVars>>

\* fetch_user_info: without a key no task is spawned; with one, the client
\* is built on the UI thread by make_api_client, whose unwrap() panics when
\* PixelDrainClient::new fails
FetchUserInfo ==
    /\ CanStart
    /\ ~ui_blocked
    /\ \E clientOk \in BOOLEAN :
         /\ Fresh("fetch_user_info", HasKey, IF HasKey /\ clientOk THEN 1 ELSE 0)
         /\ CASE ~HasKey ->
                   /\ pc' = "done"
                   /\ last_error' = "nokey"
                   /\ UNCHANGED ui_blocked
              [] HasKey /\ clientOk ->
                   /\ pc' = "request"
                   /\ UNCHANGED <<last_error, ui_blocked>>
              [] OTHER ->
                   /\ pc' = "panic"
                   /\ ui_blocked' = TRUE
                   /\ UNCHANGED last_error
    /\ loading' = [loading EXCEPT !["fetch_user_info"] = TRUE]
    /\ path_exists' = FALSE
    /\ total' = 0
    /\ UNCHANGED <<cellVars, upload_thread_running, download_thread_running,
                   list_error, upload_history, download_history, user_info,
                   file_list, tar_running, refresh_pending, server_lists,
                   tar_blocked, multiVars, coordVars>>

\* refresh_lists, create_list, update_list, delete_list: no thread is
\* spawned, the UI thread runs the retry loop itself, with the client of
\* make_api_client, whose unwrap() panics when PixelDrainClient::new fails
StartListOp ==
    /\ CanStart
    /\ ~ui_blocked
    /\ \E o \in ListTabOps, clientOk \in BOOLEAN :
         /\ Fresh(o, HasKey, IF clientOk THEN 1 ELSE 0)
         /\ loading' = [loading EXCEPT ![o] = TRUE]
         /\ pc' = IF clientOk THEN "request" ELSE "panic"
    /\ path_exists' = FALSE
    /\ total' = 0
    /\ ui_blocked' = TRUE
    /\ UNCHANGED <<cellVars, upload_thread_running, download_thread_running,
                   stateVars, tar_running, refresh_pending, server_lists,
                   tar_blocked, multiVars, coordVars>>

\* upload_tab: Select Files, Select Directory, files dropped on the window
SelectFiles ==
    /\ ~ui_blocked
    /\ upload_progress' = Zero
    /\ last_error' = "None"
    /\ UNCHANGED <<taskVars, ioVars, outVars, download_progress, flagVars,
                   list_error, upload_history, download_history, user_info,
                   file_list, envVars, traceVars>>

(***************************************************************************)
(* How a task ends: the error message is stored, the flag is cleared.      *)
(***************************************************************************)
\* the running flag of an operation
RunningFlag(o) ==
    CASE o \in UploadOps \cup {"directory"} -> upload_thread_running
      [] o = "download" -> download_thread_running
      [] OTHER -> loading[o]

ClearFlag ==
    CASE op \in UploadOps \cup {"directory"} ->
           /\ upload_thread_running' = FALSE
           /\ UNCHANGED <<download_thread_running, loading>>
      [] op = "download" ->
           /\ download_thread_running' = FALSE
           /\ UNCHANGED <<upload_thread_running, loading>>
      [] OTHER ->
           /\ loading' = [loading EXCEPT ![op] = FALSE]
           /\ UNCHANGED <<upload_thread_running, download_thread_running>>

\* mutation: an early return stores no message
Abort_silent(msg) ==
    /\ ClearFlag
    /\ pc' = "done"
    /\ UNCHANGED <<last_error, list_error, upload_history, download_history,
                   user_info, file_list>>

\* an early return of the task: state.last_error = Some(msg); flag = false
Abort(msg) ==
    /\ last_error' = msg
    /\ ClearFlag
    /\ pc' = "done"
    /\ UNCHANGED <<list_error, upload_history, download_history, user_info,
                   file_list>>

\* PixelDrainClient::extract_file_id at the head of the download task
ExtractFileId ==
    /\ pc = "extract_id"
    /\ \E valid \in BOOLEAN :
         IF valid
         THEN /\ pc' = "client_new"
              /\ UNCHANGED <<flagVars, stateVars>>
         ELSE Abort("url")
    /\ UNCHANGED <<op, attempt, api_key, path_exists, ioVars,
                   outVars, cellVars, envVars, traceVars>>

\* PixelDrainClient::new in the task
ClientNew ==
    /\ pc = "client_new"
    /\ \E ok \in BOOLEAN :
         IF ok
         THEN /\ pc' = CASE op \in UploadOps -> "api_pre"
                         [] op = "directory" -> "tar_spawn"
                         [] op = "download" -> "file_info"
                         [] OTHER -> "request"
              /\ attempt' = IF op \in MetaOps THEN 1 ELSE attempt
              /\ UNCHANGED <<flagVars, stateVars>>
         ELSE /\ Abort("client")
              /\ UNCHANGED attempt
    /\ UNCHANGED <<op, api_key, path_exists, ioVars,
                   outVars, cellVars, envVars, traceVars>>


(***************************************************************************)
(* What one request can end in.                                            *)
(***************************************************************************)
SendFailures == {Reqwest(s) : s \in SendErrors}

\* do_request + parse_json_response: Api from 400 on, Serde on a bad body
DoRequestOutcomes ==
    SendFailures \cup {Api(st) : st \in {x \in Statuses : x >= 400}}
                 \cup {Serde, OkResult}

\* do_multipart, upload_stream_put, update_list: Api unless 2xx, resp.json()
MultipartOutcomes ==
    SendFailures \cup {Api(st) : st \in {x \in Statuses : ~is_success(x)}}
                 \cup {Reqwest("decode"), OkResult}

\* get_user_lists: Api unless 2xx, resp.text()?, then the parsing strategies
UserListsOutcomes ==
    SendFailures \cup {Api(st) : st \in {x \in Statuses : ~is_success(x)}}
                 \cup {Reqwest("decode"), Serde, OkResult}

\* the responses of the server: an error status comes with an error
\* message, which is not the JSON the caller expects
Responses ==
    {Response(st, b) : st \in {x \in Statuses : x < 400}, b \in Bodies}
        \cup {Response(st, "bad") : st \in {x \in Statuses : x >= 400}}

\* parse_json_response: the body as text (empty when its read fails), Api
\* from 400 on, else serde_json::from_str
parse_json_response(rs) ==
    CASE rs.status >= 400 -> Api(rs.status)
      [] rs.body \in ServerIds -> OkResult
      [] OTHER -> Serde

\* do_multipart, upload_stream_put, create_list, update_list: Api unless
\* the status is a success, else resp.json()?
json_response(rs) ==
    CASE ~is_success(rs.status) -> Api(rs.status)
      [] rs.body \in ServerIds -> OkResult
      [] OTHER -> Reqwest("decode")

\* get_user_lists: Api unless success, resp.text()?, the parsing strategies
user_lists_response(rs) ==
    CASE ~is_success(rs.status) -> Api(rs.status)
      [] rs.body \in ServerIds -> OkResult
      [] rs.body = "unreadable" -> Reqwest("decode")
      [] OTHER -> Serde

\* what the call of operation o makes of a response
Respond(o, rs) ==
    CASE o = "refresh_lists" -> user_lists_response(rs)
      [] o \in {"update_list", "create_list", "upload", "multi", "directory"} ->
           json_response(rs)
      [] OTHER -> parse_json_response(rs)

\* r is what the request of o returns when rs came back (NoResp: nothing did)
Answers(o, rs, r) ==
    IF rs = NoResp THEN r \in SendFailures ELSE r = Respond(o, rs)

\* the request each attempt of a metadata operation makes
Outcomes(o) ==
    CASE o = "refresh_lists" -> UserListsOutcomes
      [] o = "update_list" -> MultipartOutcomes
      [] o = "create_list" -> MultipartOutcomes
      [] o = "upload" -> MultipartOutcomes
      [] o = "multi" -> MultipartOutcomes
      [] o = "directory" -> MultipartOutcomes
      [] OTHER -> DoRequestOutcomes

(***************************************************************************)
(* upload_file and upload_file_put.                                        *)
(***************************************************************************)
\* Err(e) arm of the match: retry or return
UploadFail(e) ==
    /\ lastErr' = e
    /\ IF should_retry(e) /\ attempt < MAX_RETRIES(op)
       THEN /\ pc' = "sleep"
            /\ UNCHANGED result
       ELSE /\ pc' = "api_ret"
            /\ result' = e
    /\ UNCHANGED <<succeeded, read_failed_at>>

\* the checks with the credential test ahead of the existence test
precheck_key_first(exists, key, metaOk) ==
    CASE ~key -> MissingApiKey
      [] ~exists -> FileNotFound
      [] ~metaOk -> Io
      [] OTHER -> OkResult

\* the early returns of upload_file and upload_file_put, in source order:
\* file_path.exists(), config.api_key.is_none(), file_path.metadata()?
precheck(exists, key, metaOk) ==
    CASE ~exists -> FileNotFound
      [] ~key -> MissingApiKey
      [] ~metaOk -> Io
      [] OTHER -> OkResult

\* the checks before the loop: exists, api_key, metadata
UploadPrecheck ==
    /\ pc = "api_pre"
    /\ op \in UploadOps
    /\ \E metaOk \in BOOLEAN :
         LET r == precheck(path_exists, api_key, metaOk)
         IN IF r = OkResult
            THEN /\ attempt' = 1
                 /\ pc' = "attempt_begin"
                 /\ UNCHANGED result
            ELSE /\ result' = r
                 /\ pc' = "api_ret"
                 /\ UNCHANGED attempt
    /\ UNCHANGED <<op, api_key, path_exists, ioVars, lastErr,
                   succeeded, read_failed_at, cellVars, flagVars, stateVars,
                   envVars, traceVars>>

\* head of the loop body: progress(0.0), File::open, a new ProgressReader;
\* a retry comes after the 3 s delay, so the throttle lets its 0.0 through
UploadBeginAttempt ==
    /\ pc = "attempt_begin"
    /\ op \in UploadOps
    /\ \E openOk \in BOOLEAN,
          elapsed \in (IF attempt > 1 THEN {TRUE} ELSE BOOLEAN) :
         /\ Deliver(<<>>, attempt_start(attempt), elapsed)
         /\ IF openOk
            THEN /\ pc' = "send"
                 /\ requests' = requests + 1
                 /\ UNCHANGED result
            ELSE /\ pc' = "api_ret"
                 /\ result' = Io
                 /\ UNCHANGED requests
    /\ resets' = resets + Len(attempt_start(attempt))
    /\ UNCHANGED <<resp, tar_result, last_entry>>
    /\ read' = new_counter(read)
    /\ wire' = 0
    /\ nreads' = 0
    /\ UNCHANGED <<op, attempt, api_key, path_exists, total,
                   lastErr, succeeded, read_failed_at, flagVars, stateVars,
                   envVars>>

\* ProgressReader::read in known-length mode, n = 0 at the end of the file
UploadBodyRead ==
    /\ pc = "send"
    /\ op \in UploadOps
    /\ nreads < MaxReads
    /\ \E n \in Chunks \cup {0}, elapsed \in BOOLEAN :
         /\ IF n = 0 THEN wire = total ELSE wire + n <= total
         /\ read' = advance(read, n)
         /\ wire' = wire + n
         /\ IF total > 0
            THEN Deliver(cbSeq, <<known_progress(read', total)>>, elapsed)
            ELSE Deliver(cbSeq, <<>>, elapsed)
    /\ nreads' = nreads + 1
    /\ UNCHANGED <<requests, resets, resp, tar_result, last_entry>>
    /\ UNCHANGED <<taskVars, total, outVars, flagVars, stateVars, envVars>>

\* the request ends: send error, error status, undecodable body, or success
\* (a success answer comes once the whole body went out)
UploadResponse ==
    /\ pc = "send"
    /\ op \in UploadOps
    /\ \E r \in Outcomes(op), rs \in Responses \cup {NoResp},
          elapsed \in BOOLEAN :
         /\ Answers(op, rs, r)
         /\ resp' = rs
         /\ IF r = OkResult
            THEN /\ wire = total
                 /\ Deliver(cbSeq, <<One>>, elapsed)
                 /\ result' = OkResult
                 /\ succeeded' = TRUE
                 /\ pc' = "api_ret"
                 /\ UNCHANGED <<lastErr, read_failed_at>>
            ELSE /\ UploadFail(r)
                 /\ UNCHANGED <<cbSeq, last_update, cellVars, last_write>>
    /\ UNCHANGED <<requests, resets, tar_result, last_entry>>
    /\ UNCHANGED <<op, attempt, api_key, path_exists, total, read,
                   nreads, wire, flagVars, stateVars, envVars>>

\* thread::sleep(RETRY_DELAY); continue: the for loop's next iteration
RetryDelay ==
    /\ pc = "sleep"
    /\ IF attempt < MAX_RETRIES(op)
       THEN /\ attempt' = attempt + 1
            /\ pc' = IF op \in MetaOps THEN "request" ELSE "attempt_begin"
            /\ UNCHANGED result
       ELSE /\ pc' = "api_ret"
            /\ result' = IF lastErr = NoError THEN Api(500) ELSE lastErr
            /\ UNCHANGED attempt
    /\ UNCHANGED <<op, api_key, path_exists, ioVars, lastErr,
                   succeeded, read_failed_at, cellVars, flagVars, stateVars,
                   envVars, traceVars>>

\* the entry pushed after a successful upload: the id of the response, its
\* URL, and the size path.metadata() reports for the file that was uploaded
\* (the file is not touched while the operation runs)
UploadHistoryEntry(id, size) == [id |-> id, url |-> get_file_url(id), size |-> size]

\* the task of start_upload after the call: history or error, then the flag
RecordUpload ==
    /\ pc = "api_ret"
    /\ op \in {"upload", "upload_put"}
    /\ IF result = OkResult
       THEN /\ upload_history' = upload_history + 1
            /\ last_entry' = UploadHistoryEntry(resp.body, total)
            /\ last_error' = "None"
       ELSE /\ last_error' = "upload"
            /\ UNCHANGED <<upload_history, last_entry>>
    /\ ClearFlag
    /\ pc' = "done"
    /\ UNCHANGED <<op, attempt, api_key, path_exists, ioVars,
                   outVars, cellVars, list_error, download_history, user_info,
                   file_list, envVars, requests, resets, resp, last_write,
                   tar_result>>

\* the task of start_multiple_upload after one upload_file call: the entry
\* (counted) and the next file, or the error and the end of the loop; then
\* the flag
RecordMultiFile ==
    /\ pc = "api_ret"
    /\ op = "multi"
    /\ IF result = OkResult
       THEN /\ upload_history' = upload_history + 1
            /\ uploaded_count' = uploaded_count + 1
            /\ UNCHANGED last_error
       ELSE /\ last_error' = "upload"
            /\ UNCHANGED <<upload_history, uploaded_count>>
    /\ IF result = OkResult /\ file_index + 1 < total_files
       THEN /\ \E size \in Sizes \cup {-1} :
                 /\ path_exists' = (size >= 0)
                 /\ total' = IF size >= 0 THEN size ELSE 0
            /\ file_index' = file_index + 1
            /\ attempt' = 0
            /\ read' = 0
            /\ nreads' = 0
            /\ wire' = 0
            /\ cbSeq' = <<>>
            /\ lastErr' = NoError
            /\ result' = NoError
            /\ succeeded' = FALSE
            /\ requests' = 0
            /\ resets' = 0
            /\ resp' = NoResp
            /\ pc' = "api_pre"
            /\ UNCHANGED flagVars
       ELSE /\ ClearFlag
            /\ pc' = "done"
            /\ UNCHANGED <<file_index, attempt, path_exists, total, read,
                           nreads, wire, cbSeq, lastErr, result, succeeded,
                           requests, resets, resp>>
    /\ UNCHANGED <<last_write, tar_result, last_entry>>
    /\ UNCHANGED <<op, api_key, last_update, read_failed_at, cellVars,
                   list_error, download_history, user_info, file_list,
                   total_files, tar_running, refresh_pending, server_lists,
                   tar_blocked, ui_blocked, coordVars>>


(***************************************************************************)
(* start_download: get_file_info, then download_file.                      *)
(***************************************************************************)
\* client.get_file_info: one request, its error ends the task
GetFileInfo ==
    /\ pc = "file_info"
    /\ attempt' = 1
    /\ \E r \in DoRequestOutcomes, rs \in Responses \cup {NoResp} :
         /\ Answers("file_info", rs, r)
         /\ resp' = rs
         /\ IF r = OkResult
            THEN /\ pc' = "attempt_begin"
                 /\ UNCHANGED <<result, flagVars, stateVars>>
            ELSE /\ result' = r
                 /\ Abort("info")
    /\ requests' = requests + 1
    /\ UNCHANGED <<resets, last_write, tar_result, last_entry>>
    /\ UNCHANGED <<op, api_key, path_exists, ioVars, lastErr,
                   succeeded, read_failed_at, cellVars, envVars>>

\* head of the loop body: progress(0.0), the request is built
DownloadBeginAttempt ==
    /\ pc = "attempt_begin"
    /\ op = "download"
    /\ Deliver(<<>>, attempt_start(attempt), TRUE)
    /\ resets' = resets + Len(attempt_start(attempt))
    /\ requests' = requests + 1
    /\ UNCHANGED <<resp, tar_result, last_entry>>
    /\ pc' = "send"
    /\ UNCHANGED <<op, attempt, api_key, path_exists, total, read,
                   nreads, wire, outVars, flagVars, stateVars, envVars>>

\* req.send() fails: retried whatever the error, while attempts remain
DownloadSendFail ==
    /\ pc = "send"
    /\ op = "download"
    /\ \E e \in SendFailures :
         /\ lastErr' = e
         /\ IF attempt < MAX_RETRIES(op)
            THEN /\ pc' = "sleep"
                 /\ UNCHANGED result
            ELSE /\ pc' = "api_ret"
                 /\ result' = e
    /\ resp' = NoResp
    /\ UNCHANGED <<requests, resets, last_write, tar_result, last_entry>>
    /\ UNCHANGED <<op, attempt, api_key, path_exists, ioVars,
                   succeeded, read_failed_at, cellVars, flagVars, stateVars,
                   envVars>>

\* a response arrives (its body is the file, or an error message): error
\* status, or File::create and the read loop
DownloadResponse ==
    /\ pc = "send"
    /\ op = "download"
    /\ \E st \in Statuses, content_length \in Sizes, createOk \in BOOLEAN :
         /\ resp' = Response(st, "bad")
         /\ IF ~is_success(st)
            THEN /\ IF is_server_error(st) /\ attempt < MAX_RETRIES(op)
                    THEN /\ lastErr' = Api(st)
                         /\ pc' = "sleep"
                         /\ UNCHANGED result
                    ELSE /\ result' = Api(st)
                         /\ pc' = "api_ret"
                         /\ UNCHANGED lastErr
                 /\ UNCHANGED <<total, read, wire, nreads>>
            ELSE /\ total' = content_length
                 /\ read' = new_counter(read)
                 /\ wire' = 0
                 /\ nreads' = 0
                 /\ IF createOk
                    THEN /\ pc' = "recv"
                         /\ UNCHANGED result
                    ELSE /\ pc' = "api_ret"
                         /\ result' = Io
                 /\ UNCHANGED lastErr
    /\ UNCHANGED <<requests, resets, last_write, tar_result, last_entry>>
    /\ UNCHANGED <<op, attempt, api_key, path_exists, cbSeq,
                   last_update, succeeded, read_failed_at, cellVars, flagVars,
                   stateVars, envVars>>

\* resp.read returns n > 0 bytes: write_all, downloaded += n, progress
DownloadRead ==
    /\ pc = "recv"
    /\ op = "download"
    /\ nreads < MaxReads
    /\ \E n \in Chunks, writeOk \in BOOLEAN :
         /\ total > 0 => wire + n <= total
         /\ wire' = wire + n
         /\ IF writeOk
            THEN /\ read' = advance(read, n)
                 /\ Deliver(cbSeq, <<download_progress_value(read', total)>>, TRUE)
                 /\ UNCHANGED <<pc, result>>
            ELSE /\ result' = Io
                 /\ pc' = "api_ret"
                 /\ UNCHANGED <<read, cbSeq, last_update, cellVars, last_write>>
    /\ nreads' = nreads + 1
    /\ UNCHANGED <<requests, resets, resp, tar_result, last_entry>>
    /\ UNCHANGED <<op, attempt, api_key, path_exists, total,
                   lastErr, succeeded, read_failed_at, flagVars, stateVars,
                   envVars>>

\* resp.read returns 0: the body is complete; progress(1.0); Ok(())
DownloadEof ==
    /\ pc = "recv"
    /\ op = "download"
    /\ total > 0 => wire = total
    /\ Deliver(cbSeq, <<One>>, TRUE)
    /\ result' = OkResult
    /\ succeeded' = TRUE
    /\ pc' = "api_ret"
    /\ UNCHANGED <<requests, resets, resp, tar_result, last_entry>>
    /\ UNCHANGED <<op, attempt, api_key, path_exists, total, read,
                   nreads, wire, lastErr, read_failed_at, flagVars, stateVars,
                   envVars>>

\* resp.read fails: before the last attempt the code sleeps and breaks out of
\* the read loop only, so progress(1.0) and return Ok(()) follow
DownloadReadError ==
    /\ pc = "recv"
    /\ op = "download"
    /\ read_failed_at' = attempt
    /\ IF attempt < MAX_RETRIES(op)
       THEN /\ Deliver(cbSeq, <<One>>, TRUE)
            /\ result' = OkResult
       ELSE /\ result' = Io
            /\ UNCHANGED <<cbSeq, last_update, cellVars, last_write>>
    /\ pc' = "api_ret"
    /\ UNCHANGED <<requests, resets, resp, tar_result, last_entry>>
    /\ UNCHANGED <<op, attempt, api_key, path_exists, total, read,
                   nreads, wire, lastErr, succeeded, flagVars, stateVars,
                   envVars>>

\* the task of start_download after the call
RecordDownload ==
    /\ pc = "api_ret"
    /\ op = "download"
    /\ IF result = OkResult
       THEN /\ download_history' = download_history + 1
            /\ last_error' = "None"
       ELSE /\ last_error' = "download"
            /\ UNCHANGED download_history
    /\ ClearFlag
    /\ pc' = "done"
    /\ UNCHANGED <<op, attempt, api_key, path_exists, ioVars,
                   outVars, cellVars, list_error, upload_history, user_info,
                   file_list, envVars, traceVars>>

(***************************************************************************)
(* start_directory_upload: tar piped into upload_stream_put.               *)
(***************************************************************************)
\* the arguments of tar (dir_path.file_name().unwrap() panics for a path
\* without a last component, such as /), then tar_cmd.spawn(); stdout being
\* piped, tar_process.stdout.take() is Some
TarSpawn ==
    /\ pc = "tar_spawn"
    /\ \E has_name \in BOOLEAN, ok \in BOOLEAN :
         CASE ~has_name ->
                /\ pc' = "panic"
                /\ UNCHANGED <<flagVars, stateVars, tar_running>>
           [] has_name /\ ok ->
                /\ tar_running' = TRUE
                /\ pc' = "api_pre"
                /\ UNCHANGED <<flagVars, stateVars>>
           [] OTHER ->
                /\ Abort("tar")
                /\ UNCHANGED tar_running
    /\ UNCHANGED <<op, attempt, api_key, path_exists, ioVars,
                   outVars, cellVars, refresh_pending, server_lists,
                   tar_blocked, multiVars, ui_blocked, coordVars, traceVars>>

\* the archiver's stderr is piped and read only after wait(): once its
\* diagnostics fill the pipe, tar stops until somebody reads them
TarStderrFull ==
    /\ tar_running
    /\ ~tar_blocked
    /\ pc \in {"api_pre", "send", "api_ret"}
    /\ tar_blocked' = TRUE
    /\ UNCHANGED <<taskVars, ioVars, outVars, cellVars, flagVars, stateVars,
                   tar_running, refresh_pending, server_lists, multiVars,
                   ui_blocked, coordVars, traceVars>>

\* upload_stream_put: the key check, a ProgressReader in stream mode
StreamPrecheck ==
    /\ pc = "api_pre"
    /\ op = "directory"
    /\ IF api_key
       THEN /\ attempt' = 1
            /\ pc' = "send"
            /\ requests' = requests + 1
            /\ UNCHANGED result
       ELSE /\ result' = MissingApiKey
            /\ pc' = "api_ret"
            /\ UNCHANGED <<attempt, requests>>
    /\ read' = new_counter(read)
    /\ UNCHANGED <<resets, resp, last_write, tar_result, last_entry>>
    /\ UNCHANGED <<op, api_key, path_exists, total, nreads, wire,
                   cbSeq, last_update, lastErr, succeeded, read_failed_at,
                   cellVars, flagVars, stateVars, envVars>>

\* ProgressReader::read in stream mode, n = 0 when tar closed its output
StreamBodyRead ==
    /\ pc = "send"
    /\ op = "directory"
    /\ ~tar_blocked
    /\ nreads < MaxReads
    /\ \E n \in StreamChunks \cup {0} :
         /\ read' = advance(read, n)
         /\ wire' = wire + n
         /\ Deliver(cbSeq, <<stream_progress(read')>>, TRUE)
    /\ nreads' = nreads + 1
    /\ UNCHANGED <<requests, resets, resp, tar_result, last_entry>>
    /\ UNCHANGED <<taskVars, total, outVars, flagVars, stateVars, envVars>>

\* the one request of upload_stream_put ends; nothing is retried
StreamResponse ==
    /\ pc = "send"
    /\ op = "directory"
    /\ \E r \in Outcomes(op), rs \in Responses \cup {NoResp} :
         /\ Answers(op, rs, r)
         /\ resp' = rs
         /\ r = OkResult => ~tar_blocked
         /\ result' = r
         /\ succeeded' = (r = OkResult)
    /\ pc' = "api_ret"
    /\ UNCHANGED <<requests, resets, last_write, tar_result, last_entry>>
    /\ UNCHANGED <<op, attempt, api_key, path_exists, ioVars,
                   lastErr, read_failed_at, cellVars, flagVars, stateVars,
                   envVars>>

\* what tar_process.wait() can return: the exit status, or an error
TarResults == {"exit0", "exit1", "wait_err"}

\* mutation: an archiver failure is reported as the outcome
directory_outcome_tar_first(r, tr) ==
    IF tr # "exit0" THEN "tar_failed"
    ELSE IF r = OkResult THEN "None" ELSE "directory"

\* match result: the outcome stored is that of the upload call; tar_result
\* only adds a debug message when it is an Err
directory_outcome(r, tr) == IF r = OkResult THEN "None" ELSE "directory"

\* mutation: the task does not wait for the archiver
after_wait_skipped(running) == running

\* tar_process.wait() has returned: the child is gone
after_wait(running) == FALSE

\* let tar_result = tar_process.wait(), after upload_stream_put returned; it
\* returns when tar has exited; then the archiver's stderr is read
TarWait ==
    /\ pc = "api_ret"
    /\ op = "directory"
    /\ ~tar_blocked
    /\ tar_running' = after_wait(tar_running)
    /\ \E tr \in TarResults : tar_result' = tr
    /\ pc' = "record"
    /\ UNCHANGED <<op, attempt, api_key, path_exists, ioVars, outVars,
                   cellVars, flagVars, stateVars, refresh_pending,
                   server_lists, tar_blocked, multiVars, ui_blocked,
                   coordVars, requests, resets, resp, last_write, last_entry>>

\* the task of start_directory_upload after the wait: the outcome (the size
\* of the entry is 0: "we don't know the exact size"), then the flag
RecordDirectoryUpload ==
    /\ pc = "record"
    /\ op = "directory"
    /\ last_error' = directory_outcome(result, tar_result)
    /\ IF directory_outcome(result, tar_result) = "None"
       THEN /\ upload_history' = upload_history + 1
            /\ last_entry' = UploadHistoryEntry(resp.body, 0)
       ELSE UNCHANGED <<upload_history, last_entry>>
    /\ ClearFlag
    /\ pc' = "done"
    /\ UNCHANGED <<op, attempt, api_key, path_exists, ioVars,
                   outVars, cellVars, list_error, download_history, user_info,
                   file_list, envVars, requests, resets, resp, last_write,
                   tar_result>>


(***************************************************************************)
(* The retry loops of the coordinator: refresh_file_list, delete_file,     *)
(* fetch_user_info, refresh_lists, create_list, update_list, delete_list.  *)
(***************************************************************************)
\* where the failure message of the operation goes
ErrorCell(o) == IF o \in ListTabOps THEN "list_error" ELSE "last_error"

\* Ok arm of the match
MetaSuccess ==
    /\ result' = OkResult
    /\ succeeded' = TRUE
    /\ UNCHANGED <<lastErr, read_failed_at>>
    /\ ClearFlag
    /\ pc' = IF op = "fetch_user_info" THEN "post_loop" ELSE "done"
    /\ IF ErrorCell(op) = "list_error"
       THEN /\ list_error' = "None"
            /\ UNCHANGED last_error
       ELSE /\ last_error' = "None"
            /\ UNCHANGED list_error
    /\ file_list' = (file_list \/ op = "refresh_file_list")
    /\ user_info' = (user_info \/ op = "fetch_user_info")
    /\ refresh_pending' = (refresh_pending \/ op = "delete_file")
    /\ ui_blocked' = FALSE
    /\ UNCHANGED <<upload_history, download_history, tar_running,
                   tar_blocked, multiVars, coordVars, resets, last_write,
                   tar_result, last_entry>>

\* Err arm of the match: sleep and continue, or break and store the message
MetaFail(e) ==
    /\ lastErr' = e
    /\ UNCHANGED <<succeeded, read_failed_at, upload_history, download_history,
                   user_info, file_list, tar_running, refresh_pending,
                   tar_blocked, multiVars, coordVars, resets, last_write,
                   tar_result, last_entry>>
    /\ IF should_retry(e) /\ attempt < MAX_RETRIES(op)
       THEN /\ pc' = "sleep"
            /\ UNCHANGED <<result, flagVars, last_error, list_error,
                           ui_blocked>>
       ELSE /\ pc' = "done"
            /\ result' = e
            /\ ui_blocked' = FALSE
            /\ ClearFlag
            /\ IF ErrorCell(op) = "list_error"
               THEN /\ list_error' = op
                    /\ UNCHANGED last_error
               ELSE /\ last_error' = op
                    /\ UNCHANGED list_error

\* one attempt of an operation that makes one request
MetaRequest ==
    /\ pc = "request"
    /\ op \in MetaOps \ {"create_list"}
    /\ \E r \in (IF op = "delete_file" /\ ~api_key
                 THEN {MissingApiKey} ELSE Outcomes(op)),
          rs \in Responses \cup {NoResp} :
         /\ IF r = MissingApiKey
            THEN rs = NoResp /\ UNCHANGED requests
            ELSE Answers(op, rs, r) /\ requests' = requests + 1
         /\ resp' = rs
         /\ IF r = OkResult THEN MetaSuccess ELSE MetaFail(r)
    /\ UNCHANGED <<op, attempt, api_key, path_exists, ioVars,
                   cellVars, server_lists>>

\* one attempt of create_list: POST /list, then GET /list/{id}
CreateListRequest ==
    /\ pc = "request"
    /\ op = "create_list"
    /\ \E r1 \in MultipartOutcomes, r2 \in DoRequestOutcomes, lost \in BOOLEAN,
          rs1, rs2 \in Responses \cup {NoResp} :
         LET accepted == r1 \in {OkResult, Reqwest("decode")}
                         \/ (r1 = Reqwest("timeout") /\ lost)
             r == IF r1 = OkResult THEN r2 ELSE r1
         IN /\ Answers("create_list", rs1, r1)
            /\ IF r1 = OkResult
               THEN /\ Answers("get_list", rs2, r2)
                    /\ resp' = rs2
                    /\ requests' = requests + 2
               ELSE /\ rs2 = NoResp
                    /\ r2 = OkResult
                    /\ resp' = rs1
                    /\ requests' = requests + 1
            /\ server_lists' = server_lists + (IF accepted THEN 1 ELSE 0)
            /\ IF r = OkResult THEN MetaSuccess ELSE MetaFail(r)
    /\ UNCHANGED <<op, attempt, api_key, path_exists, ioVars,
                   cellVars>>

\* fetch_user_info after its loop: an earlier failure is reported even when
\* a later attempt succeeded; the flag is cleared (again)
PostLoop ==
    /\ pc = "post_loop"
    /\ last_error' = IF lastErr # NoError THEN op ELSE last_error
    /\ ClearFlag
    /\ pc' = "done"
    /\ UNCHANGED <<op, attempt, api_key, path_exists, ioVars,
                   outVars, cellVars, list_error, upload_history,
                   download_history, user_info, file_list, envVars, traceVars>>

\* the thread delete_file spawns after a success: get_user_files once more
AfterDeleteRefresh ==
    /\ refresh_pending
    /\ refresh_pending' = FALSE
    /\ \E ok \in BOOLEAN : file_list' = (file_list \/ ok)
    /\ UNCHANGED <<taskVars, ioVars, outVars, cellVars, flagVars, last_error,
                   list_error, upload_history, download_history, user_info,
                   tar_running, server_lists, tar_blocked, multiVars,
                   ui_blocked, coordVars, traceVars>>

Next ==
    \/ StartUpload
    \/ StartMultipleUpload
    \/ StartDirectoryUpload
    \/ StartDownload
    \/ StartFileOp
    \/ FetchUserInfo
    \/ StartListOp
    \/ SelectFiles
    \/ ExtractFileId
    \/ ClientNew
    \/ UploadPrecheck
    \/ UploadBeginAttempt
    \/ UploadBodyRead
    \/ UploadResponse
    \/ RetryDelay
    \/ RecordUpload
    \/ RecordMultiFile
    \/ GetFileInfo
    \/ DownloadBeginAttempt
    \/ DownloadSendFail
    \/ DownloadResponse
    \/ DownloadRead
    \/ DownloadEof
    \/ DownloadReadError
    \/ RecordDownload
    \/ TarSpawn
    \/ TarStderrFull
    \/ StreamPrecheck
    \/ StreamBodyRead
    \/ StreamResponse
    \/ TarWait
    \/ RecordDirectoryUpload
    \/ MetaRequest
    \/ CreateListRequest
    \/ PostLoop
    \/ AfterDeleteRefresh

Spec == Init /\ [][Next]_vars

\* the steps of the thread that runs the operation (the spawned thread, or
\* the UI thread for the list operations)
TaskNext ==
    \/ ExtractFileId
    \/ ClientNew
    \/ UploadPrecheck
    \/ UploadBeginAttempt
    \/ UploadBodyRead
    \/ UploadResponse
    \/ RetryDelay
    \/ RecordUpload
    \/ RecordMultiFile
    \/ GetFileInfo
    \/ DownloadBeginAttempt
    \/ DownloadSendFail
    \/ DownloadResponse
    \/ DownloadRead
    \/ DownloadEof
    \/ DownloadReadError
    \/ RecordDownload
    \/ TarSpawn
    \/ StreamPrecheck
    \/ StreamBodyRead
    \/ StreamResponse
    \/ TarWait
    \/ RecordDirectoryUpload
    \/ MetaRequest
    \/ CreateListRequest
    \/ PostLoop

\* a thread that can take a step eventually takes one: every request ends
\* (the client has a timeout), every sleep ends, the scheduler is fair; the
\* user and the archiver's diagnostics are under no obligation
FairSpec == Spec /\ WF_vars(TaskNext) /\ WF_vars(AfterDeleteRefresh)

TypeOK ==
    /\ op \in Ops \cup {"none"}
    /\ attempt \in 0..6
    /\ read >= 0
    /\ wire >= 0
    /\ Len(cbSeq) <= MaxReads + 2


(***************************************************************************)
(* The coordinator with several operations at once: the buttons of the     *)
(* tabs with their guards, the threads they spawn, the AppState mutex.     *)
(* A thread is followed from its API call to the end of its closure.       *)
(***************************************************************************)
\* ids of the files on display in the Files tab
FileIds == {"a", "b"}

Task(k, f) == [kind |-> k, phase |-> "network", ok |-> FALSE, file |-> f]

TaskIds == 1..MaxTasks

Running(t) == tasks[t].kind # "none"

FreeIds == {t \in TaskIds : ~Running(t)}

\* thread::spawn: the new thread takes the first unused entry
Spawn(ts, k, f) ==
    LET free == {t \in TaskIds : ts[t].kind = "none"}
        new == CHOOSE t \in free : \A u \in free : t <= u
    IN [ts EXCEPT ![new] = Task(k, f)]

\* the key the thread of an operation builds its client with: the one
\* get_api_key returned to the start_* method; start_download takes the
\* default config
client_key(k) ==
    IF k = "download" THEN NoKey ELSE get_api_key(stored_key, env_key)

\* the category an operation's thread belongs to
Category(k) ==
    CASE k = "upload" -> "upload"
      [] k = "download" -> "download"
      [] k \in {"files", "refresh_after_delete"} -> "files"
      [] k = "delete" -> "delete"
      [] OTHER -> "none"

\* a list fetched earlier in the session may be on display; no error is on
\* display (AppState::default), the errors of earlier operations come from
\* the operations of this specification
CoInit ==
    /\ InitBase
    /\ file_list \in BOOLEAN
    /\ env_key \in EnvKeys
    /\ last_error = "None"
    /\ list_error = "None"

\* what the coordinator's steps leave alone
transferVars ==
    <<taskVars, ioVars, outVars, download_progress, list_error, user_info,
      tar_running, refresh_pending, server_lists, tar_blocked, multiVars,
      ui_blocked, env_key, traceVars, url_case, lockVars>>

\* upload_tab: ui.add_enabled(!is_running, ...)
upload_enabled == ~upload_thread_running

\* download_tab: clicked() && !download_thread_running
download_enabled == ~download_thread_running

\* files_tab: the Refresh button is drawn only while !files_loading
refresh_enabled == ~loading["refresh_file_list"]

\* mutation: the Delete buttons are always drawn
delete_enabled_always == TRUE

\* files_tab: !file_delete_loading && ui.button("Delete").clicked()
delete_enabled == ~loading["delete_file"]

\* Upload clicked: start_upload
CoUploadClick ==
    /\ ui_at = "frame"
    /\ upload_enabled
    /\ FreeIds # {}
    /\ tasks' = Spawn(tasks, "upload", "-")
    /\ built_key' = client_key("upload")
    /\ overlap_failure' = "None"
    /\ upload_progress' = Zero
    /\ upload_thread_running' = TRUE
    /\ UNCHANGED <<transferVars, download_thread_running, loading, last_error,
                   upload_history, download_history, file_list, state_lock,
                   ui_at, stored_key>>

\* Download clicked: start_download reads download_location under the lock
CoDownloadClick ==
    /\ ui_at = "frame"
    /\ download_enabled
    /\ state_lock = NoHolder
    /\ FreeIds # {}
    /\ tasks' = Spawn(tasks, "download", "-")
    /\ built_key' = client_key("download")
    /\ overlap_failure' = "None"
    /\ download_thread_running' = TRUE
    /\ UNCHANGED <<transferVars, upload_progress, upload_thread_running,
                   loading, last_error, upload_history, download_history,
                   file_list, state_lock, ui_at, stored_key>>

\* Refresh clicked: refresh_file_list
CoRefreshClick ==
    /\ ui_at = "frame"
    /\ refresh_enabled
    /\ state_lock = NoHolder
    /\ FreeIds # {}
    /\ tasks' = Spawn(tasks, "files", "-")
    /\ built_key' = client_key("files")
    /\ overlap_failure' = "None"
    /\ loading' = [loading EXCEPT !["refresh_file_list"] = TRUE]
    /\ last_error' = "None"
    /\ UNCHANGED <<transferVars, upload_progress, upload_thread_running,
                   download_thread_running, upload_history, download_history,
                   file_list, state_lock, ui_at, stored_key>>

\* Delete clicked on a file of the list: delete_file(file_id); room is kept
\* for the thread a successful delete spawns
CoDeleteClick ==
    /\ ui_at = "frame"
    /\ file_list
    /\ delete_enabled
    /\ state_lock = NoHolder
    /\ Cardinality(FreeIds) >= 2
    /\ \E f \in FileIds : tasks' = Spawn(tasks, "delete", f)
    /\ built_key' = client_key("delete")
    /\ overlap_failure' = "None"
    /\ loading' = [loading EXCEPT !["delete_file"] = TRUE]
    /\ last_error' = "None"
    /\ UNCHANGED <<transferVars, upload_progress, upload_thread_running,
                   download_thread_running, upload_history, download_history,
                   file_list, state_lock, ui_at, stored_key>>

\* save_settings: the lock is taken, the key of the settings tab is stored
\* and persist_settings runs under the lock
CoSaveSettings ==
    /\ ui_at = "frame"
    /\ state_lock = NoHolder
    /\ state_lock' = UiThread
    /\ ui_at' = "persist"
    /\ \E k \in StoredKeys : stored_key' = k
    /\ last_error' = "None"
    /\ overlap_failure' = "None"
    /\ UNCHANGED <<transferVars, cellVars, flagVars, upload_history,
                   download_history, file_list, tasks, built_key>>

\* persist_settings returns (create_dir_all, fs::write); the guard is dropped
CoPersistDone ==
    /\ ui_at = "persist"
    /\ \E ok \in BOOLEAN : last_error' = IF ok THEN "None" ELSE "settings"
    /\ overlap_failure' = "None"
    /\ state_lock' = NoHolder
    /\ ui_at' = "frame"
    /\ UNCHANGED <<transferVars, cellVars, flagVars, upload_history,
                   download_history, file_list, tasks, stored_key,
                   built_key>>

\* an operation of another category is in its API call
OtherInFlight(t) ==
    \E u \in TaskIds \ {t} :
       /\ tasks[u].phase = "network"
       /\ Category(tasks[u].kind) \notin {"none", Category(tasks[t].kind)}

\* the API call of a thread returns, then state.lock() and the match on the
\* result (the history entries it pushes are followed in Spec); the thread
\* spawned by delete_file locks only when its fetch succeeded; the Ok arm of
\* delete_file releases the lock at the end of its block
CoRecord(t) ==
    \E ok \in BOOLEAN :
      LET k == tasks[t].kind
          locks == ~(k = "refresh_after_delete" /\ ~ok)
          keeps == locks /\ ~(k \in {"delete", "refresh_after_delete"} /\ ok)
      IN /\ tasks[t].phase = "network"
         /\ locks => state_lock = NoHolder
         /\ state_lock' = IF keeps THEN t ELSE state_lock
         /\ tasks' = [tasks EXCEPT
                         ![t].ok = ok,
                         ![t].phase = IF k = "upload" /\ ok
                                      THEN "clipboard" ELSE "recorded"]
         /\ file_list' =
                (file_list \/ (k \in {"files", "refresh_after_delete"} /\ ok))
         /\ last_error' =
                CASE k = "refresh_after_delete" -> last_error
                  [] k = "upload" /\ ok -> last_error
                  [] ok -> "None"
                  [] OTHER -> k
         /\ overlap_failure' =
                CASE k = "refresh_after_delete" \/ ok -> overlap_failure
                  [] OtherInFlight(t) -> k
                  [] OTHER -> "None"
         /\ UNCHANGED <<transferVars, cellVars, flagVars, user_info,
                        list_error, upload_history, download_history, ui_at,
                        stored_key, built_key>>

\* Clipboard::new().and_then(set_text) inside the lock's scope; start_upload
\* sets last_error = None after it
CoClipboardDone(t) ==
    /\ tasks[t].phase = "clipboard"
    /\ tasks' = [tasks EXCEPT ![t].phase = "recorded"]
    /\ last_error' = "None"
    /\ UNCHANGED <<transferVars, cellVars, flagVars, list_error,
                   upload_history, download_history, user_info, file_list,
                   state_lock, ui_at, stored_key, built_key,
                   overlap_failure>>

\* the flag is set to false, the closure ends and drops the guard; a
\* successful delete_file spawns the thread that fetches the list again
CoFinish(t) ==
    LET k == tasks[t].kind
        ended == [tasks EXCEPT ![t] = NoTask]
    IN /\ tasks[t].phase = "recorded"
       /\ tasks' = IF k = "delete" /\ tasks[t].ok
                   THEN Spawn(ended, "refresh_after_delete", tasks[t].file)
                   ELSE ended
       /\ state_lock' = IF state_lock = t THEN NoHolder ELSE state_lock
       /\ upload_thread_running' =
              (upload_thread_running /\ Category(k) # "upload")
       /\ download_thread_running' =
              (download_thread_running /\ k # "download")
       /\ loading' =
              CASE k = "files" -> [loading EXCEPT !["refresh_file_list"] = FALSE]
                [] k = "delete" -> [loading EXCEPT !["delete_file"] = FALSE]
                [] OTHER -> loading
       /\ UNCHANGED <<transferVars, cellVars, stateVars, ui_at, stored_key,
                      built_key, overlap_failure>>

CoNext ==
    \/ CoUploadClick
    \/ CoDownloadClick
    \/ CoRefreshClick
    \/ CoDeleteClick
    \/ CoSaveSettings
    \/ CoPersistDone
    \/ \E t \in TaskIds : CoRecord(t)
    \/ \E t \in TaskIds : CoClipboardDone(t)
    \/ \E t \in TaskIds : CoFinish(t)

CoordSpec == CoInit /\ [][CoNext]_vars


(***************************************************************************)
(* The locking of the UI thread and of two tasks, mutex by mutex.          *)
(***************************************************************************)
\* a frame whose flag guard is kept while the AppState mutex is taken
ui_frame_guard_kept ==
    <<Lock("upload_thread_running"), Lock("state"), Unlock("state"),
      Unlock("upload_thread_running")>>
    \o Temp("upload_progress") \o Temp("files_loading")

\* one frame of the UI thread: render_debug_panel copies the flag out of a
\* temporary guard, then reads the AppState; upload_tab and files_tab read
\* the cell, the flags and the AppState, each guard dropped before the next
\* lock is taken
ui_frame ==
    Temp("upload_thread_running") \o Temp("state")
    \o Temp("upload_progress") \o Temp("files_loading")

\* the task of start_upload: a progress report (the callback's mutex, and
\* inside the callback the cell's), then the outcome under the AppState
\* mutex, whose guard lives until the flag has been written
upload_task_script ==
    <<Lock("progress_cb"), Lock("upload_progress"),
      Unlock("upload_progress"), Unlock("progress_cb"),
      Lock("state"), Lock("upload_thread_running"),
      Unlock("upload_thread_running"), Unlock("state")>>

\* the task of refresh_file_list: the outcome under the AppState mutex,
\* files_loading written while that guard is alive
files_task_script ==
    <<Lock("state"), Lock("files_loading"),
      Unlock("files_loading"), Unlock("state")>>

\* what each thread runs, again and again
Script(t) ==
    CASE t = "ui" -> ui_frame
      [] t = "upload_task" -> upload_task_script
      [] OTHER -> files_task_script

\* the step the thread is at
Step(t) == Script(t)[at[t]]

\* the position after the step; after the last one the thread starts over
\* (the next frame, the next operation)
After(t) == IF at[t] = Len(Script(t)) THEN 1 ELSE at[t] + 1

\* everything but the mutexes and the URL handed to extract_file_id
appVars ==
    <<taskVars, ioVars, outVars, cellVars, flagVars, stateVars, tar_running,
      refresh_pending, server_lists, tar_blocked, multiVars, ui_blocked,
      tasks, state_lock, ui_at, stored_key, env_key, built_key,
      overlap_failure, traceVars>>

\* the thread reaches a lock() call
LockRequest(t) ==
    /\ want[t] = NoLock
    /\ Step(t)[1] = "lock"
    /\ want' = [want EXCEPT ![t] = Step(t)[2]]
    /\ UNCHANGED <<held, at, appVars, url_case>>

\* lock() returns: the mutex was free (std::sync::Mutex is not reentrant)
LockAcquire(t) ==
    /\ want[t] # NoLock
    /\ held[want[t]] = Free
    /\ held' = [held EXCEPT ![want[t]] = t]
    /\ want' = [want EXCEPT ![t] = NoLock]
    /\ at' = [at EXCEPT ![t] = After(t)]
    /\ UNCHANGED <<appVars, url_case>>

\* the guard is dropped
LockRelease(t) ==
    /\ Step(t)[1] = "unlock"
    /\ held[Step(t)[2]] = t
    /\ held' = [held EXCEPT ![Step(t)[2]] = Free]
    /\ at' = [at EXCEPT ![t] = After(t)]
    /\ UNCHANGED <<want, appVars, url_case>>

LockNext ==
    \/ \E t \in LockThreads : LockRequest(t)
    \/ \E t \in LockThreads : LockAcquire(t)
    \/ \E t \in LockThreads : LockRelease(t)

LockSpec == Init /\ [][LockNext]_vars

(***************************************************************************)
(* extract_file_id applied to share URLs and to other URLs.                *)
(***************************************************************************)
\* paths that are not those of a share URL or of the file endpoint, and the
\* two that are, to be followed by an id or by nothing
OtherPrefixes ==
    {<<"/">>, <<"/", "l", "/">>, <<"/", "u">>, <<"/", "api", "/", "file">>,
     Text("/u/"), Text("/api/file/")}

\* the URL of an upload, as it is, or with ?download appended
ShareUrl ==
    /\ url_case.form = "none"
    /\ \E id \in Ids, q \in BOOLEAN :
         url_case' = [id |-> id,
                      form |-> "share",
                      text |-> Text(get_file_url(id)[2])
                               \o get_file_url(id)[3]
                               \o (IF q THEN Text("?download") ELSE <<>>),
                      out |-> UrlResult(NoError, <<>>)]
    /\ UNCHANGED <<appVars, lockVars>>

\* a URL typed into the download tab
OtherUrl ==
    /\ url_case.form = "none"
    /\ \E p \in OtherPrefixes, tail \in Ids \cup {<<>>} :
         url_case' = [id |-> <<>>,
                      form |-> "other",
                      text |-> p \o tail,
                      out |-> UrlResult(NoError, <<>>)]
    /\ UNCHANGED <<appVars, lockVars>>

\* start_download: PixelDrainClient::extract_file_id(&url)
ExtractUrl ==
    /\ url_case.form # "none"
    /\ url_case.out.r = NoError
    /\ url_case' = [url_case EXCEPT !.out = extract_file_id(url_case.text)]
    /\ UNCHANGED <<appVars, lockVars>>

UrlNext ==
    \/ ShareUrl
    \/ OtherUrl
    \/ ExtractUrl

UrlSpec == Init /\ [][UrlNext]_vars

(***************************************************************************)
(* Properties.                                                             *)
(***************************************************************************)
\* the operation is inside an attempt that has begun, or has just left it
InAttempt == attempt >= 1 /\ pc \in {"send", "recv", "sleep", "api_ret"}

\* the last value delivered to the callback in this attempt
LastValue == cbSeq[Len(cbSeq)]

NonDecreasing(seq) == \A i \in 1..(Len(seq) - 1) : FLeq(seq[i], seq[i + 1])

\* C1: the attempts made for one call never exceed the budget: 5 for
\* download_file, 3 for the uploads and for the list/metadata operations
C1_AttemptsWithinBudget ==
    /\ op = "download" => attempt <= 5
    /\ op # "download" => attempt <= 3

\* C1 witness: a download has failed on its fifth attempt and returns the error
C1_Witness ==
    /\ op = "download"
    /\ attempt = 5
    /\ pc = "api_ret"
    /\ result = Reqwest("timeout")

\* C2: a retried operation that has returned without any successful attempt
\* has returned an error
C2_NoSuccessMeansError ==
    (pc \in {"api_ret", "done"} /\ attempt >= 1 /\ ~succeeded)
        => result.kind \notin {"Ok", "None"}

C4_ReadErrorRetried ==
    (op = "download" /\ attempt >= 1 /\ attempt < 5 /\ read_failed_at = attempt)
        => pc = "sleep"

\* C5: a network-level failure or an Api failure with status >= 500 is
\* reported by an operation of the coordinator only after the retry budget
\* of the failing call has been used up
C5_RetryableReportedAfterBudget ==
    (/\ pc = "done"
     /\ \/ result.kind = "Reqwest" /\ result.sub \in {"timeout", "connect", "request", "body"}
        \/ result.kind = "Api" /\ result.status >= 500)
        => attempt = (IF op = "download" THEN 5 ELSE 3)

\* C6: upload_file, upload_file_put and download_file deliver 0.0 to the
\* callback at the start of every attempt, before any other value of it
C6_ZeroAtAttemptStart ==
    (op \in UploadOps \cup {"download"} /\ InAttempt)
        => (Len(cbSeq) >= 1 /\ cbSeq[1] = Zero)

\* C6 witness: the second attempt of an upload has begun and delivered 0.0 only
C6_Witness ==
    /\ op = "upload"
    /\ attempt = 2
    /\ pc = "send"
    /\ cbSeq = <<Zero>>

\* C7: in a known-length transfer of size N > 0 the values delivered within
\* one attempt are non-decreasing and within [0, 1], and on success the last
\* value delivered is exactly 1.0
C7_KnownLengthMonotone ==
    (op \in UploadOps \cup {"download"} /\ total > 0)
        => /\ NonDecreasing(cbSeq)
           /\ \A i \in 1..Len(cbSeq) : FLeq(Zero, cbSeq[i]) /\ FLeq(cbSeq[i], One)
           /\ (pc = "api_ret" /\ result = OkResult) => LastValue = One

\* C7 witness: a download of 3 bytes in two reads has returned Ok
C7_Witness ==
    /\ op = "download"
    /\ total = 3
    /\ nreads = 2
    /\ succeeded
    /\ pc = "api_ret"
    /\ result = OkResult
    /\ Len(cbSeq) = 4

\* C8: in known-length mode the value reported after a read is
\* min(bytes of this attempt / declared total, 1.0); with Content-Length 1000
\* the value reported at 500 bytes is exactly 0.5
C8_CumulativeFraction ==
    /\ (/\ op \in UploadOps \cup {"download"}
        /\ total > 0
        /\ nreads >= 1
        /\ pc \in {"send", "recv"})
         => /\ Len(cbSeq) >= 2
            /\ IF wire >= total
               THEN LastValue.n = LastValue.d
               ELSE LastValue.n * total = wire * LastValue.d
    /\ (op = "download" /\ total = 1000 /\ wire = 500 /\ pc = "recv")
         => LastValue.n * 2 = LastValue.d

\* C8 witness: 500 of 1000 bytes of a download have been received
C8_Witness ==
    /\ op = "download"
    /\ pc = "recv"
    /\ total = 1000
    /\ wire = 500
    /\ nreads = 1

\* C9: in stream mode every value the reader delivers, the one of the read
\* that signals end-of-data included, is at most 0.95, never 1.0, and the
\* values are non-decreasing
C9_StreamBelowOne ==
    (op = "directory")
        => /\ NonDecreasing(cbSeq)
           /\ \A i \in 1..Len(cbSeq) :
                FLeq(cbSeq[i], Frac(95, 100)) /\ ~FLeq(One, cbSeq[i])

\* C9 witness: 1 MiB went through and the read at end-of-data reported 0.95
C9_Witness ==
    /\ op = "directory"
    /\ pc = "send"
    /\ nreads = 2
    /\ wire = 1048576
    /\ read = 1048576
    /\ cbSeq = <<Frac(95, 100), Frac(95, 100)>>

\* C10: when a transfer has succeeded and cleared its running flag, its
\* progress cell holds exactly 1.0
C10_CellIsOneOnSuccess ==
    (pc = "done" /\ op \in TransferOps /\ result = OkResult)
        => /\ op = "download" => download_progress = One
           /\ op # "download" => upload_progress = One

\* C11: in a download whose response carries no Content-Length, the value
\* reported after bytes were received is above 0.0 (it grows with the bytes
\* received) and below 1.0 while the body is still being read
C11_UnknownLengthGrows ==
    (op = "download" /\ pc = "recv" /\ total = 0 /\ nreads >= 1 /\ read > 0)
        => /\ ~FLeq(LastValue, Zero)
           /\ ~FLeq(One, LastValue)

\* the operation's thread has been started and has not cleared the flag yet
InFlight == pc \notin {"idle", "done", "post_loop"}

\* C12: for the uploads, the download, the file-list refresh and the file
\* delete the running flag is true as long as the background task is in
\* flight, and once true it is eventually false again on every path
C12_FlagSetThenCleared ==
    /\ []((op \in UploadOps \cup {"directory"} /\ InFlight) => upload_thread_running)
    /\ []((op = "download" /\ InFlight) => download_thread_running)
    /\ []((op \in {"refresh_file_list", "delete_file"} /\ InFlight) => loading[op])
    /\ (upload_thread_running ~> ~upload_thread_running)
    /\ (download_thread_running ~> ~download_thread_running)
    /\ (loading["refresh_file_list"] ~> ~loading["refresh_file_list"])
    /\ (loading["delete_file"] ~> ~loading["delete_file"])

\* what remains true of C12: the flag is cleared on every path on which the
\* archiver is not stopped by its full stderr pipe
FlagClearedUnlessTarBlocked ==
    /\ []((op \in UploadOps \cup {"directory"} /\ InFlight) => upload_thread_running)
    /\ []((op = "download" /\ InFlight) => download_thread_running)
    /\ []((op \in {"refresh_file_list", "delete_file"} /\ InFlight) => loading[op])
    /\ (upload_thread_running ~> (~upload_thread_running \/ tar_blocked))
    /\ (download_thread_running ~> ~download_thread_running)
    /\ (loading["refresh_file_list"] ~> ~loading["refresh_file_list"])
    /\ (loading["delete_file"] ~> ~loading["delete_file"])

\* C13: once the running flag of an operation that was started reads false,
\* the operation is over: nothing of it, and no thread it spawned, has a
\* write to the shared state still to do
C13_FlagClearIsLast ==
    (op \in Ops /\ pc # "idle" /\ ~RunningFlag(op))
        => (pc = "done" /\ ~refresh_pending)

\* the step that ends the operation
Ends == pc # "done" /\ pc' = "done"

\* C14: an upload or download that ends after a success has appended exactly
\* one history entry (a multi-file upload: one per uploaded file) and leaves
\* last_error at None; one that ends after a failure has appended none for
\* the failed transfer and leaves its error message in last_error
C14_HistoryAndError ==
    [][(Ends /\ op \in TransferOps) =>
         LET ok == succeeded'
             done_files == IF op = "multi" THEN file_index' ELSE 0
             expected == done_files + (IF ok THEN 1 ELSE 0)
         IN /\ IF op = "download"
               THEN download_history' = expected /\ upload_history' = 0
               ELSE upload_history' = expected /\ download_history' = 0
            /\ IF ok
               THEN last_error' = "None"
               ELSE last_error' \notin {"None", "stale"}]_vars

\* a step of the thread that runs the operation
TaskStep == pc' # pc \/ nreads' # nreads

\* C15: while the upload flag is true, every step that changes the upload
\* progress cell is a step of the upload's background task
C15_OnlyTaskWritesCell ==
    [][(upload_thread_running /\ upload_thread_running'
        /\ upload_progress' # upload_progress) => TaskStep]_vars

C17_NoNetworkOnUiThread ==
    ~(ui_blocked /\ pc \in {"request", "sleep", "send", "recv"})

\* the threads of a category that have not ended
InFlightOf(c) == {t \in TaskIds : Running(t) /\ Category(tasks[t].kind) = c}

\* C18: at any time at most one background thread per category (upload,
\* download, file-list fetch, file delete) is running
C18_OnePerCategory ==
    \A c \in {"upload", "download", "files", "delete"} :
        Cardinality(InFlightOf(c)) <= 1

C20_NoIoUnderLock ==
    /\ state_lock = UiThread => ui_at # "persist"
    /\ \A t \in TaskIds :
         state_lock = t => tasks[t].phase \notin {"clipboard", "network"}

\* the cell the operation reports its failure in
ErrorOf(o) == IF ErrorCell(o) = "list_error" THEN list_error ELSE last_error

\* C21: no failure of an operation panics, and an operation that has ended
\* without success has stored an error message and has its running flag false
C21_FailureReported ==
    /\ pc # "panic"
    /\ (pc = "done" /\ op \in Ops /\ ~succeeded)
         => /\ ~RunningFlag(op)
            /\ ErrorOf(op) \notin {"None", "stale"}

\* C22: every write of a progress callback to a progress cell has passed
\* the rate limit (16 ms since the previous write, or a value >= 1.0) and
\* is accompanied by a redraw request
C22_WritesLimitedAndRedrawn ==
    last_write # NoWrite => (last_write.limited /\ last_write.redraw)

\* the operations a click starts
ClickKinds == {"upload", "download", "files", "delete"}

\* C23: the credential is the stored key when that is not empty, otherwise
\* the environment's when that is set and not empty, otherwise none; and the
\* thread every operation starts builds its client with that credential
C23_ResolvedCredentialUsed ==
    /\ [](get_api_key(stored_key, env_key) =
            (IF stored_key # "" THEN stored_key
             ELSE IF env_key \notin {"unset", ""} THEN env_key ELSE NoKey))
    /\ [][(\E t \in TaskIds :
              tasks[t].kind = "none" /\ tasks'[t].kind \in ClickKinds)
            => built_key' = get_api_key(stored_key, env_key)]_vars

\* C24: in a directory upload the task waits on the archiver it spawned
\* after the upload call has returned, with success or with failure, and
\* before it clears the running flag
C24_ArchiverReaped ==
    /\ []((op = "directory" /\ tar_running) => upload_thread_running)
    /\ [][(tar_running /\ ~tar_running')
            => (pc = "api_ret" /\ result # NoError)]_vars

\* C24 witness: the upload call failed with a 503, the archiver was waited
\* on and had exited with an error, the flag is cleared
C24_Witness ==
    /\ op = "directory"
    /\ pc = "done"
    /\ result = Api(503)
    /\ tar_result = "exit1"
    /\ ~tar_running
    /\ ~upload_thread_running

\* C25: when the archiver fails to start, the directory upload ends there:
\* no upload request is sent, no history entry is appended, the message
\* stored names the start failure (not an upload failure), and the running
\* flag is cleared
C25_SpawnFailureTerminal ==
    /\ [][(pc = "tar_spawn" /\ pc' = "done")
            => /\ last_error' = "tar"
               /\ ~upload_thread_running'
               /\ upload_history' = upload_history
               /\ ~tar_running']_vars
    /\ []((op = "directory" /\ last_error = "tar")
            => /\ pc = "done"
               /\ requests = 0
               /\ cbSeq = <<>>
               /\ upload_history = 0
               /\ last_entry = NoEntry)

\* C25 witness: the directory upload has ended with the start failure
C25_Witness ==
    /\ op = "directory"
    /\ pc = "done"
    /\ last_error = "tar"
    /\ attempt = 0
    /\ requests = 0
    /\ ~upload_thread_running

\* C26: when the upload call of a directory upload returned success, the
\* outcome recorded is the success whatever tar_process.wait() returned: one
\* history entry is appended and last_error is None
C26_ArchiverFailureKeepsSuccess ==
    (op = "directory" /\ pc = "done" /\ result = OkResult)
        => /\ upload_history = 1
           /\ last_entry # NoEntry
           /\ last_error = "None"

\* C26 witness: the upload succeeded, the archiver exited with an error
C26_Witness ==
    /\ op = "directory"
    /\ pc = "done"
    /\ result = OkResult
    /\ tar_result = "exit1"
    /\ upload_history = 1
    /\ last_error = "None"

LastFailure == IF pc = "sleep" THEN lastErr ELSE result

\* C28: in every API operation that expects a JSON answer, a response with
\* status >= 400 yields an Api error with that status, and a response with
\* a success status whose body was received and is not the expected JSON
\* yields a Serde error
C28_ErrorKindByResponse ==
    (/\ op \in Ops \ {"download"}
     /\ resp # NoResp
     /\ pc \in {"sleep", "api_ret", "record", "done", "post_loop"})
        => /\ resp.status >= 400 => LastFailure = Api(resp.status)
           /\ (is_success(resp.status) /\ resp.body = "bad")
                => LastFailure.kind = "Serde"

C30_OkMeansCompleteBody ==
    (op = "download" /\ pc = "api_ret" /\ result = OkResult)
        => /\ read_failed_at = 0
           /\ read = wire
           /\ total > 0 => read = total

\* C31: when an upload has ended with its running flag false and the progress
\* cell at 1.0 or more (the UI shows "Upload complete"), the upload succeeded
C31_CompleteMeansSucceeded ==
    (/\ op \in {"upload", "upload_put"}
     /\ pc = "done"
     /\ ~upload_thread_running
     /\ FLeq(One, upload_progress))
        => result = OkResult

\* C32: after a call of fetch_user_info is over (no task was spawned, or its
\* task has ended) the user-info loading flag reads false
C32_UserInfoFlagCleared ==
    (op = "fetch_user_info" /\ pc = "done") => ~loading["fetch_user_info"]

\* C33: when the task of fetch_user_info has ended and one of its attempts
\* succeeded, the user info is stored and the stored error message is None
C33_FinalAttemptDecides ==
    (op = "fetch_user_info" /\ pc = "done" /\ succeeded)
        => /\ user_info
           /\ last_error = "None"

\* C34: one create-list action creates at most one list on the server
C34_AtMostOneListCreated ==
    op = "create_list" => server_lists <= 1

\* C35: a directory upload whose archiver was started always terminates with
\* its running flag cleared
C35_DirectoryUploadTerminates ==
    (op = "directory" /\ tar_running /\ upload_thread_running)
        ~> ~upload_thread_running

\* t waits for a mutex that u holds
WaitsFor(t, u) == want[t] # NoLock /\ held[want[t]] = u

\* t waits, directly or through other waiting threads, for a mutex u holds
WaitsOn(t, u) ==
    \/ WaitsFor(t, u)
    \/ \E v \in LockThreads : WaitsFor(t, v) /\ WaitsFor(v, u)
    \/ \E v, w \in LockThreads :
          WaitsFor(t, v) /\ WaitsFor(v, w) /\ WaitsFor(w, u)

\* C36: the UI thread and the tasks never deadlock on the application's
\* mutexes: no thread waits, directly or transitively, for a mutex held by
\* a thread that waits for a mutex the first one holds (itself included)
C36_NoLockCycle ==
    \A t \in LockThreads : ~WaitsOn(t, t)

\* the UI thread and the file-list task both wait for the AppState mutex
\* while the upload task holds it and is about to take the flag's mutex
C36_Witness ==
    /\ want["ui"] = "state"
    /\ want["files_task"] = "state"
    /\ held["state"] = "upload_task"
    /\ want["upload_task"] = "upload_thread_running"

\* the files before the current one were uploaded and recorded, in order;
\* after a failure nothing more is processed
MultiHistoryInOrder ==
    op = "multi" =>
        /\ upload_history = uploaded_count
        /\ file_index < total_files \/ total_files = 0
        /\ IF pc = "done" /\ result = OkResult
           THEN uploaded_count = file_index + 1 /\ uploaded_count = total_files
           ELSE uploaded_count = file_index

\* the running flag is true from the start to the end of the last file
MultiFlagHeld ==
    (op = "multi" /\ pc \notin {"idle", "done"}) => upload_thread_running

\* a step of the task outside a retried attempt never lowers the cell
MultiProgressRises ==
    [][(op = "multi" /\ TaskStep /\ attempt' <= 1)
         => FLeq(upload_progress, upload_progress')]_vars

\* the overall progress is 1.0 at the end only if the last file succeeded
MultiCompleteMeansAllUploaded ==
    (op = "multi" /\ pc = "done" /\ FLeq(One, upload_progress))
        => (result = OkResult /\ uploaded_count = total_files)

\* C37: a multi-file upload processes its files in order and stops at the
\* first failure; its history entries are those of the files before the
\* first failure; the running flag is true until the last processed file
\* has finished; without retries the overall progress never decreases, and
\* it is 1.0 only after the last file succeeded
C37_MultiUploadInOrder ==
    /\ []MultiHistoryInOrder
    /\ []MultiFlagHeld
    /\ MultiProgressRises
    /\ []MultiCompleteMeansAllUploaded

\* C38: when an operation failed while an operation of another category was
\* in flight, and nothing was started, saved or failed since, its message is
\* still in last_error once every operation has completed
C38_ErrorSurvivesOtherSuccess ==
    (overlap_failure # "None" /\ \A t \in TaskIds : ~Running(t))
        => last_error = overlap_failure

\* letters and digits
SafeIdChars == {"a", "b"}

\* the path is /u/<id> or /api/file/<id> with a non-empty id
PathHasId(path) ==
    \E p \in {Text("/u/"), Text("/api/file/")} :
       StartsWith(path, p) /\ Len(path) > Len(p)

\* extract_file_id has returned
Extracted == url_case.form # "none" /\ url_case.out.r # NoError

\* every other URL yields InvalidUrl
OtherUrlsInvalid ==
    (Extracted /\ ~PathHasId(url_path(url_case.text)))
        => url_case.out = UrlResult(InvalidUrl, <<>>)

\* C39: for every non-empty id, extract_file_id applied to the share URL
\* of the id, with or without a query string, returns that id; a URL whose
\* path is neither /u/<id> nor /api/file/<id> yields InvalidUrl
C39_ShareUrlRoundTrip ==
    /\ (Extracted /\ url_case.form = "share")
          => url_case.out = UrlResult(OkResult, url_case.id)
    /\ OtherUrlsInvalid

\* C39 amended: the round trip holds for every non-empty id made of letters
\* and digits; every other URL yields InvalidUrl
C39_SafeIdRoundTrip ==
    /\ (/\ Extracted
        /\ url_case.form = "share"
        /\ \A i \in 1..Len(url_case.id) : url_case.id[i] \in SafeIdChars)
          => url_case.out = UrlResult(OkResult, url_case.id)
    /\ OtherUrlsInvalid

\* the id "ab" came back from its share URL with ?download appended
C39_Witness ==
    /\ url_case.form = "share"
    /\ url_case.id = <<"a", "b">>
    /\ url_case.text = <<"/", "u", "/", "a", "b", "?", "download">>
    /\ url_case.out = UrlResult(OkResult, <<"a", "b">>)

====
